---- MODULE Spec2Model ----
(***************************************************************************)
(* Model of the terminal chatbot: the free-text ticker resolver             *)
(* (finance_api.py: resolve_tickers_from_text and its helpers), the        *)
(* per-ticker report generation (get_stock_report,                         *)
(* get_freeform_stock_report), the model call with its retries             *)
(* (openai_chat.py: call_openai) and the conversation histories            *)
(* (memory.py: ask_chatbot).                                               *)
(*                                                                         *)
(* Texts and tickers are TLA+ strings; a character is a string of length   *)
(* one, taken with SubSeq.  Scores of the similarity scorer are exact      *)
(* rationals <<num, den>> (value 100 * num / den).                         *)
(***************************************************************************)
EXTENDS Integers, Sequences, FiniteSets, TLC

(***************************************************************************)
(* Characters                                                              *)
(***************************************************************************)

\* The characters of the model, in code-point order (used by sorted()).
\* The last one, written ¤, stands for the Kelvin sign (U+212A), which a
\* TLA+ string cannot hold.
Alphabet == " &-.12345?ABCDEFGHIJKLMNOPQRSTUVWXYZabcdefghijklmnopqrstuvwxyzÄÅÖäåö¤"

UpperChars == "ABCDEFGHIJKLMNOPQRSTUVWXYZÅÄÖ"
LowerChars == "abcdefghijklmnopqrstuvwxyzåäö"
AsciiUpper == "ABCDEFGHIJKLMNOPQRSTUVWXYZ"

Char(s, i) == SubSeq(s, i, i)

\* the set of the characters of s
CharsOf(s) == {Char(s, i) : i \in 1..Len(s)}

\* position of character c in string s
IndexOf(s, c) == CHOOSE i \in 1..Len(s) : Char(s, i) = c

\* code-point rank of a character
OrdOf == [c \in CharsOf(Alphabet) |-> IndexOf(Alphabet, c)]
Ord(c) == OrdOf[c]

UpperSet == CharsOf(UpperChars)
LowerSet == CharsOf(LowerChars)
AsciiUpperSet == CharsOf(AsciiUpper)

ToLower == [c \in UpperSet |-> Char(LowerChars, IndexOf(UpperChars, c))]
ToUpper == [c \in LowerSet |-> Char(UpperChars, IndexOf(LowerChars, c))]

KelvinSign == "¤"

\* a character outside the two alphabets that str.lower() maps into them:
\* "\u212a".lower() is "k"
SignLower == [c \in {KelvinSign} |-> "k"]

\* str.lower() on one character
LowerChar(c) ==
    IF c \in UpperSet THEN ToLower[c]
    ELSE IF c \in DOMAIN SignLower THEN SignLower[c]
    ELSE c

\* str.upper() on one character
UpperChar(c) == IF c \in LowerSet THEN ToUpper[c] ELSE c

RECURSIVE Lower(_)
Lower(s) == IF s = "" THEN "" ELSE LowerChar(Char(s, 1)) \o Lower(Tail(s))

RECURSIVE Upper(_)
Upper(s) == IF s = "" THEN "" ELSE UpperChar(Char(s, 1)) \o Upper(Tail(s))

\* an endswith that says yes to everything
EndsWith_Always(s, suf) == TRUE

\* str.endswith
EndsWith(s, suf) ==
    /\ Len(s) >= Len(suf)
    /\ SubSeq(s, Len(s) - Len(suf) + 1, Len(s)) = suf

(***************************************************************************)
(* Token Extractor: _WORDS_RX and _normalize_company_text                  *)
(***************************************************************************)

\* the character class of _WORDS_RX: [A-Za-zÅÄÖåäö\-\.]
IsWordChar(c) == c \in UpperSet \/ c \in LowerSet \/ c = "-" \/ c = "."

\* _WORDS_RX.findall(s): the maximal runs of word characters, in order.
\* cur is the run being read.
RECURSIVE FindAllFrom(_, _, _)
FindAllFrom(s, i, cur) ==
    IF i > Len(s)
    THEN IF cur = "" THEN <<>> ELSE <<cur>>
    ELSE IF IsWordChar(Char(s, i))
         THEN FindAllFrom(s, i + 1, cur \o Char(s, i))
         ELSE IF cur = "" THEN FindAllFrom(s, i + 1, "")
              ELSE <<cur>> \o FindAllFrom(s, i + 1, "")

FindAll(s) == FindAllFrom(s, 1, "")

\* " ".join(seq)
RECURSIVE Join(_)
Join(toks) ==
    IF toks = <<>> THEN ""
    ELSE IF Len(toks) = 1 THEN toks[1]
    ELSE toks[1] \o " " \o Join(Tail(toks))

\* an optional text: <<>> is None, <<s>> is the string s
None == <<>>
Some(s) == <<s>>

\* text, without the "or"
OrEmpty_Missing(text) == text

\* (text or ""): None and the empty string both give the empty string
OrEmpty(text) == IF text = None \/ text = Some("") THEN Some("") ELSE text

\* str.lower() exists on a string only: on None the call raises AttributeError
LowerRaises(text) == text = None

\* _normalize_company_text(text), for a text on which it does not raise
_normalize_company_text(text) == Join(FindAll(Lower(OrEmpty(text)[1])))

\* _normalize_company_text(text) raises
NormalizeRaises(text) == LowerRaises(OrEmpty(text))

\* str.split(): the maximal runs of non-space characters
RECURSIVE SplitFrom(_, _, _)
SplitFrom(s, i, cur) ==
    IF i > Len(s)
    THEN IF cur = "" THEN <<>> ELSE <<cur>>
    ELSE IF Char(s, i) # " "
         THEN SplitFrom(s, i + 1, cur \o Char(s, i))
         ELSE IF cur = "" THEN SplitFrom(s, i + 1, "")
              ELSE <<cur>> \o SplitFrom(s, i + 1, "")

Split(s) == SplitFrom(s, 1, "")

(***************************************************************************)
(* Market Suffix Normalizer                                                *)
(***************************************************************************)

_STOCKHOLM_SUFFIX_CANDIDATES ==
    {"VOLV-A", "VOLV-B", "ERIC-A", "ERIC-B", "HM-B", "SAND", "ATCO-A", "ATCO-B", "EVO"}

_ST_SUFFIX == ".ST"

\* upper-cases and never appends the suffix
_maybe_append_st_NoSuffix(ticker) == Upper(ticker)

\* looks the ticker up without its ".ST" and appends the suffix even when it
\* is there already
_maybe_append_st_Reappend(ticker) ==
    LET t == Upper(ticker)
        base == IF EndsWith(t, ".ST") THEN SubSeq(t, 1, Len(t) - 3) ELSE t
    IN  IF base \in _STOCKHOLM_SUFFIX_CANDIDATES
        THEN t \o _ST_SUFFIX
        ELSE t

_maybe_append_st(ticker) ==
    LET t == Upper(ticker)
    IN  IF t \in _STOCKHOLM_SUFFIX_CANDIDATES /\ ~EndsWith(t, ".ST")
        THEN t \o _ST_SUFFIX
        ELSE t

(***************************************************************************)
(* Ticker Pattern Matcher: re.fullmatch of                                 *)
(* [A-Z]{1,5}(\-[A-Z])?(\.[A-Z]{2,4})? on the upper-cased token            *)
(***************************************************************************)

\* a letter class that takes Å, Ä and Ö as well
IsAZ_Nordic(c) == c \in UpperSet

IsAZ(c) == c \in AsciiUpperSet

\* number of leading A-Z characters of s
RECURSIVE LeadingAZ(_)
LeadingAZ(s) ==
    IF s = "" THEN 0
    ELSE IF IsAZ(Char(s, 1)) THEN 1 + LeadingAZ(Tail(s))
    ELSE 0

\* (\.[A-Z]{2,4})? then end of string
MatchMarketSuffix(s) ==
    \/ s = ""
    \/ /\ Char(s, 1) = "."
       /\ LeadingAZ(Tail(s)) = Len(s) - 1
       /\ Len(s) - 1 \in 2..4

\* (\-[A-Z])? then the market suffix
MatchShareClass(s) ==
    \/ MatchMarketSuffix(s)
    \/ /\ Len(s) >= 2
       /\ Char(s, 1) = "-"
       /\ IsAZ(Char(s, 2))
       /\ MatchMarketSuffix(SubSeq(s, 3, Len(s)))

\* the pattern with {1,4} for {1,5}
TickerShape_FourLetters(up) ==
    LET k == LeadingAZ(up)
    IN  /\ k >= 1
        /\ \E n \in 1..4 : n <= k /\ MatchShareClass(SubSeq(up, n + 1, Len(up)))

TickerShape(up) ==
    LET k == LeadingAZ(up)
    IN  /\ k >= 1
        /\ \E n \in 1..5 : n <= k /\ MatchShareClass(SubSeq(up, n + 1, Len(up)))

(***************************************************************************)
(* Alias Table                                                             *)
(***************************************************************************)

\* list(_ALIAS_TO_TICKER.keys()), in the dict's insertion order
AliasKeys ==
    << "tesla", "apple", "microsoft", "nvidia", "google", "alphabet", "amazon",
       "meta", "facebook", "netflix", "oracle", "adobe",
       "volvo", "volvob", "ericsson", "ericson", "eric-b", "astra", "astrazeneca",
       "h&m", "hm", "sandvik", "atlas copco", "atlas", "evolution" >>

\* the values of _ALIAS_TO_TICKER, in the same order
AliasValues ==
    << "TSLA", "AAPL", "MSFT", "NVDA", "GOOGL", "GOOGL", "AMZN",
       "META", "META", "NFLX", "ORCL", "ADBE",
       "VOLV-B.ST", "VOLV-B.ST", "ERIC-B.ST", "ERIC-B.ST", "ERIC-B.ST", "AZN", "AZN",
       "HM-B.ST", "HM-B.ST", "SAND.ST", "ATCO-B.ST", "ATCO-B.ST", "EVO.ST" >>

\* index of key w in the alias table, 0 when w is no key  (w in _ALIAS_TO_TICKER)
RECURSIVE AliasIndexFrom(_, _)
AliasIndexFrom(w, i) ==
    IF i > Len(AliasKeys) THEN 0
    ELSE IF AliasKeys[i] = w THEN i
    ELSE AliasIndexFrom(w, i + 1)

AliasIndex(w) == AliasIndexFrom(w, 1)

\* _ALIAS_TO_TICKER[w]
_ALIAS_TO_TICKER(w) == AliasValues[AliasIndex(w)]

(***************************************************************************)
(* Fuzzy scorer: rapidfuzz.fuzz.WRatio, as the library documents it.       *)
(* A score is <<num, den>> and stands for 100 * num / den.                 *)
(***************************************************************************)

Max(a, b) == IF a >= b THEN a ELSE b
Min(a, b) == IF a <= b THEN a ELSE b

ScoreLe(a, b) == a[1] * b[2] <= b[1] * a[2]
ScoreMax(a, b) == IF ScoreLe(a, b) THEN b ELSE a

\* multiplication of a score by per / 200  (0.95 = 190, 0.9 = 180, 0.6 = 120)
Scale(sc, per) == <<sc[1] * per, sc[2] * 200>>

Zero == <<0, 1>>
Hundred == <<1, 1>>
IsHundred(sc) == sc[1] = sc[2]

\* one row of the longest-common-subsequence table: cur[j + 1] is the length
\* of the longest common subsequence of the prefix read so far and b[1..j]
RECURSIVE LcsRowFrom(_, _, _, _)
LcsRowFrom(prev, x, b, cur) ==
    IF Len(cur) > Len(b) THEN cur
    ELSE LET j == Len(cur)
         IN  LcsRowFrom(prev, x, b,
                Append(cur, IF x = Char(b, j) THEN prev[j] + 1
                            ELSE Max(prev[j + 1], cur[j])))

\* the rows for a[i..]; stops early once all of b is matched
RECURSIVE LcsRows(_, _, _, _)
LcsRows(a, b, i, prev) ==
    IF i > Len(a) \/ prev[Len(b) + 1] = Len(b) THEN prev[Len(b) + 1]
    ELSE LcsRows(a, b, i + 1, LcsRowFrom(prev, Char(a, i), b, <<0>>))

Lcs(a, b) == LcsRows(a, b, 1, [j \in 1..(Len(b) + 1) |-> 0])

\* Indel distance: insertions and deletions that turn a into b
IndelDistance(a, b) == Len(a) + Len(b) - 2 * Lcs(a, b)

\* fuzz.ratio: normalized Indel similarity
Ratio(a, b) ==
    IF Len(a) + Len(b) = 0 THEN Hundred
    ELSE <<2 * Lcs(a, b), Len(a) + Len(b)>>

\* the greatest score of a non-empty set
ScoreBest(S) == CHOOSE x \in S : \A y \in S : ScoreLe(y, x)

\* best ratio of the shorter string against the windows of the longer one:
\* the windows of its length and the shorter ones at both ends
PartialImpl(short, long) ==
    ScoreBest({ Ratio(short, SubSeq(long, Max(1, i), Min(Len(long), i + Len(short) - 1))) :
                    i \in (2 - Len(short))..Len(long) })

\* fuzz.partial_ratio
PartialRatio(a, b) ==
    IF a = "" /\ b = "" THEN Hundred
    ELSE IF a = "" \/ b = "" THEN Zero
    ELSE LET short == IF Len(a) <= Len(b) THEN a ELSE b
             long  == IF Len(a) <= Len(b) THEN b ELSE a
             res   == PartialImpl(short, long)
         IN  IF Len(a) = Len(b) /\ ~IsHundred(res)
             THEN ScoreMax(res, PartialImpl(long, short))
             ELSE res

\* a < b in code-point order
RECURSIVE StrLess(_, _)
StrLess(a, b) ==
    IF b = "" THEN FALSE
    ELSE IF a = "" THEN TRUE
    ELSE IF Char(a, 1) = Char(b, 1) THEN StrLess(Tail(a), Tail(b))
    ELSE Ord(Char(a, 1)) < Ord(Char(b, 1))

\* insertion of a token into a sorted sequence, after its equals
RECURSIVE InsertSorted(_, _)
InsertSorted(sorted, x) ==
    IF sorted = <<>> THEN <<x>>
    ELSE IF StrLess(x, sorted[1]) THEN <<x>> \o sorted
    ELSE <<sorted[1]>> \o InsertSorted(Tail(sorted), x)

\* sorted(seq)
RECURSIVE Sorted(_)
Sorted(toks) ==
    IF toks = <<>> THEN <<>>
    ELSE InsertSorted(Sorted(SubSeq(toks, 1, Len(toks) - 1)), toks[Len(toks)])

\* a list where a set is meant: repetitions are kept
Distinct_KeepRepeats(toks) == toks

\* the members of seq without repetition, in the order of their first occurrence
\* (the members of a set in insertion order; list(dict.fromkeys(seq)))
RECURSIVE Distinct(_)
Distinct(toks) ==
    IF toks = <<>> THEN <<>>
    ELSE LET rest == Distinct(SubSeq(toks, 1, Len(toks) - 1))
             x    == toks[Len(toks)]
         IN  IF \E i \in 1..Len(rest) : rest[i] = x THEN rest ELSE Append(rest, x)

Range(seq) == {seq[i] : i \in 1..Len(seq)}

\* sorted(set of tokens)
SortedSet(S, toks) == Sorted(SelectSeq(Distinct(toks), LAMBDA x : x \in S))

\* fuzz.token_sort_ratio
TokenSortRatio(a, b) == Ratio(Join(Sorted(Split(a))), Join(Sorted(Split(b))))

\* fuzz.token_set_ratio
TokenSetRatio(a, b) ==
    LET ta == Range(Split(a))
        tb == Range(Split(b))
        inter == ta \cap tb
        dab == Join(SortedSet(ta \ tb, Split(a)))
        dba == Join(SortedSet(tb \ ta, Split(b)))
        sectLen == Len(Join(SortedSet(inter, Split(a))))
        gap == IF sectLen # 0 THEN 1 ELSE 0
        sectAbLen == sectLen + gap + Len(dab)
        sectBaLen == sectLen + gap + Len(dba)
        result == <<sectAbLen + sectBaLen - IndelDistance(dab, dba), sectAbLen + sectBaLen>>
        sectAb == <<sectLen + sectAbLen - (gap + Len(dab)), sectLen + sectAbLen>>
        sectBa == <<sectLen + sectBaLen - (gap + Len(dba)), sectLen + sectBaLen>>
    IN  IF ta = {} \/ tb = {} THEN Zero
        ELSE IF inter # {} /\ (ta \ tb = {} \/ tb \ ta = {}) THEN Hundred
        ELSE IF sectLen = 0 THEN result
        ELSE ScoreMax(result, ScoreMax(sectAb, sectBa))

\* fuzz.token_ratio
TokenRatio(a, b) == ScoreMax(TokenSortRatio(a, b), TokenSetRatio(a, b))

\* fuzz.partial_token_ratio
PartialTokenRatio(a, b) ==
    LET sa == Split(a)
        sb == Split(b)
        ta == Range(sa)
        tb == Range(sb)
        result == PartialRatio(Join(Sorted(sa)), Join(Sorted(sb)))
    IN  IF ta \cap tb # {} THEN Hundred
        ELSE IF Len(sa) = Cardinality(ta \ tb) /\ Len(sb) = Cardinality(tb \ ta)
             THEN result
             ELSE ScoreMax(result,
                      PartialRatio(Join(SortedSet(ta \ tb, sa)), Join(SortedSet(tb \ ta, sb))))

\* fuzz.WRatio
WRatio(a, b) ==
    IF a = "" \/ b = "" THEN Zero
    ELSE LET la == Len(a)
             lb == Len(b)
             long  == Max(la, lb)
             short == Min(la, lb)
             endRatio == Ratio(a, b)
         IN  IF 2 * long < 3 * short           \* len_ratio < 1.5
             THEN ScoreMax(endRatio, Scale(TokenRatio(a, b), 190))
             ELSE LET per == IF long < 8 * short THEN 180 ELSE 120
                      withPartial == ScoreMax(endRatio, Scale(PartialRatio(a, b), per))
                  IN  ScoreMax(withPartial,
                               Scale(PartialTokenRatio(a, b), (190 * per) \div 200))

(***************************************************************************)
(* Fuzzy Alias Matcher: rapidfuzz.process.extract(t, choices,              *)
(* scorer=fuzz.WRatio, limit=limit, score_cutoff=80)                       *)
(***************************************************************************)

ScoreCutoff == 80

\* score >= score_cutoff
PassesCutoff(sc) == 100 * sc[1] >= ScoreCutoff * sc[2]

\* number of positions of u whose character occurs somewhere in v: an upper
\* bound of the longest common subsequence of u and v, in whatever order the
\* characters of u and v are arranged
Shared(u, v) ==
    LET inV == CharsOf(v)
    IN  Cardinality({i \in 1..Len(u) : Char(u, i) \in inV})

\* A partial ratio scaled by per / 200 reaches the cutoff only if some window
\* w of the longer string has 2 * lcs / (m + |w|) >= 2 * cutoff / per (m: the
\* shorter length); with lcs <= |w| <= m that needs
\* lcs * (per - cutoff) >= cutoff * m.
Enough(common, m, per) == common * (per - ScoreCutoff) >= ScoreCutoff * m

Shorter(u, v) == IF Len(u) <= Len(v) THEN u ELSE v
Longer(u, v)  == IF Len(u) <= Len(v) THEN v ELSE u

\* some token occurs twice in the sequence
HasRepeat(toks) == Cardinality(Range(toks)) < Len(toks)

\* The scorer is called with score_cutoff and reports 0 for a pair that cannot
\* reach it.  A pair of lengths within factor 1.5 is always scored.  A longer
\* pair is scored when one of the parts of WRatio can reach the cutoff:
\*  - the ratio and the partial ratio, bounded by the common subsequence of
\*    the shorter string with the longer one;
\*  - the partial ratio of the sorted tokens: query and choices are
\*    single-spaced, so the sorted tokens rearrange the characters of the
\*    string, and the shared characters bound it;
\*  - a common token;
\*  - the partial ratio of the sorted distinct tokens, where tokens repeat.
CutoffReachable(a, b) ==
    LET long  == Longer(a, b)
        short == Shorter(a, b)
        per    == IF Len(long) < 8 * Len(short) THEN 180 ELSE 120
        perTok == (190 * per) \div 200
        sa == Split(a)
        sb == Split(b)
        da == Join(SortedSet(Range(sa), sa))
        db == Join(SortedSet(Range(sb), sb))
    IN  \/ a = "" \/ b = ""
        \/ 2 * Len(long) < 3 * Len(short)
        \/ /\ Enough(Shared(short, long), Len(short), per)
           /\ \/ Enough(Shared(short, long), Len(short), perTok)
              \/ Enough(Lcs(short, long), Len(short), per)
        \/ /\ perTok >= 2 * ScoreCutoff
           /\ Range(sa) \cap Range(sb) # {}
        \/ /\ HasRepeat(sa) \/ HasRepeat(sb)
           /\ \/ Enough(Shared(da, db), Len(da), perTok) /\ Len(da) <= Len(db)
              \/ Enough(Shared(db, da), Len(db), perTok) /\ Len(db) <= Len(da)

\* WRatio(query, choice, score_cutoff=80)
ScoreWithCutoff(query, choice) ==
    IF CutoffReachable(query, choice) THEN WRatio(query, choice) ELSE Zero

\* seq with x put after the members that score at least as high as x
\* (a stable sort, highest score first); members are <<index, score>>
\* a sort that puts x before the members that score the same
RECURSIVE InsertByScore_TiesFirst(_, _)
InsertByScore_TiesFirst(seq, x) ==
    IF seq = <<>> THEN <<x>>
    ELSE IF ScoreLe(x[2], seq[1][2]) /\ ~ScoreLe(seq[1][2], x[2])
         THEN <<seq[1]>> \o InsertByScore_TiesFirst(Tail(seq), x)
    ELSE <<x>> \o seq

RECURSIVE InsertByScore(_, _)
InsertByScore(seq, x) ==
    IF seq = <<>> THEN <<x>>
    ELSE IF ScoreLe(x[2], seq[1][2]) THEN <<seq[1]>> \o InsertByScore(Tail(seq), x)
    ELSE <<x>> \o seq

RECURSIVE SortByScore(_)
SortByScore(seq) ==
    IF seq = <<>> THEN <<>>
    ELSE InsertByScore(SortByScore(SubSeq(seq, 1, Len(seq) - 1)), seq[Len(seq)])

\* list[:limit - 1]
Truncate_OneShort(seq, limit) == SubSeq(seq, 1, Min(limit - 1, Len(seq)))

\* list[:limit]
Truncate(seq, limit) == SubSeq(seq, 1, Min(limit, Len(seq)))

\* process.extract once the choices are scored: of the <<index, score>>
\* that pass the cutoff, the limit best, best first; equal scores keep the
\* order of the choices
ExtractScored(scored, limit) ==
    Truncate(SortByScore(SelectSeq(scored, LAMBDA m : PassesCutoff(m[2]))), limit)

\* the matches <<index into AliasKeys, score>> of the query
Extract(query, limit) ==
    ExtractScored([i \in 1..Len(AliasKeys) |-> <<i, ScoreWithCutoff(query, AliasKeys[i])>>], limit)

(***************************************************************************)
(* Resolver: resolve_tickers_from_text                                     *)
(***************************************************************************)

\* step 1: the tokens of ticker shape, upper-cased and suffix-normalized
PatternCandidates(tokens) ==
    LET ups == [i \in 1..Len(tokens) |-> Upper(tokens[i])]
        hit == SelectSeq(ups, TickerShape)
    IN  [i \in 1..Len(hit) |-> _maybe_append_st(hit[i])]

\* step 2: the tickers of the fuzzy matches
FuzzyCandidates(t, limit) ==
    LET matches == Extract(t, limit)
    IN  [i \in 1..Len(matches) |-> AliasValues[matches[i][1]]]

\* step 3: the tickers of the tokens that are alias keys
ExactCandidates(tokens) ==
    LET hit == SelectSeq(tokens, LAMBDA w : AliasIndex(w) # 0)
    IN  [i \in 1..Len(hit) |-> _ALIAS_TO_TICKER(hit[i])]

\* found = set() that keeps what the previous call found
NewFound_Kept(previous) == previous

\* found = set(): each call starts from a fresh, empty set
NewFound(previous) == <<>>

\* the members of the set found, in the order of their first found.add
FoundInOrder(text, limit) ==
    LET t == _normalize_company_text(text)
        tokens == Split(t)
    IN  Distinct(PatternCandidates(tokens) \o FuzzyCandidates(t, limit) \o ExactCandidates(tokens))

\* seq without its i-th member
RemoveAt(seq, i) == SubSeq(seq, 1, i - 1) \o SubSeq(seq, i + 1, Len(seq))

\* Iteration order of a Python set of str.  It follows the hash values of the
\* members, which the interpreter salts per process (hash randomization):
\* seed stands for the salt and selects a permutation of the members;
\* seed 0 selects the insertion order.
RECURSIVE SetIterOrder(_, _)
SetIterOrder(members, seed) ==
    IF members = <<>> THEN <<>>
    ELSE LET i == (seed % Len(members)) + 1
         IN  <<members[i]>> \o SetIterOrder(RemoveAt(members, i), seed \div Len(members))

\* step 4 and the return: normalize each member of found, drop repetitions
\* (dict.fromkeys), cut to limit
NormalizeAndCut(foundIter, limit) ==
    Truncate(Distinct([i \in 1..Len(foundIter) |-> _maybe_append_st(foundIter[i])]), limit)

(***************************************************************************)
(* Inputs of the model                                                     *)
(***************************************************************************)

NumSessions == 2
NumSeeds == 2
MaxLimit == 3
MaxWords == 2

\* the CLI processes; each has its own hash salt
Sessions == 1..NumSessions

\* the words the generated texts are made of
Words == <<"AAPL", "sand", "tesla">>

\* the texts of at most n words
RECURSIVE WordTexts(_)
WordTexts(n) ==
    IF n = 0 THEN {""}
    ELSE LET shorter == WordTexts(n - 1)
         IN  shorter \cup {Words[i] : i \in 1..Len(Words)}
                     \cup {s \o " " \o Words[i] : s \in shorter \ {""}, i \in 1..Len(Words)}

ExampleTexts ==
    {"pris på tesla idag", "vad kostar H&M och Ericsson", "ERIC-B", "???", "12345"}

Texts == {None} \cup {Some(s) : s \in WordTexts(MaxWords) \cup ExampleTexts}

Limits == 1..MaxLimit

(***************************************************************************)
(* State                                                                   *)
(***************************************************************************)

VARIABLES
    seed,         \* seed[s]: the hash salt of session s's process
    text,         \* the text under resolution (None or a string)
    limit,        \* the limit under resolution
    called,       \* called[s]: session s has resolved the text
    raised,       \* raised[s]: the call of session s raised
    found,        \* found[s]: the members of the call's set found, in insertion order
    result,       \* result[s]: the list the call returned
    request,      \* which report is asked for: "stock" or "freeform" ("none": no report)
    tickers,      \* the tickers given to get_stock_report
    quoteFail,    \* the listed tickers whose quote cannot be fetched or formatted
    insightFail,  \* the listed tickers whose insights cannot be computed or formatted
    reported,     \* reported[s]: session s has produced its report
    reportRaised, \* reportRaised[s]: the report call of session s raised
    report        \* report[s]: the lines of the report session s produced

VARIABLES
    arg,          \* the argument of a helper applied on its own: <<kind, value>>
    out,          \* the values the helper returned, one per application
    tables,       \* the module's static tables: _ALIAS_TO_TICKER, _STOCKHOLM_SUFFIX_CANDIDATES
    round,        \* how many texts the sessions have been given to resolve
    apiState,     \* where call_openai is: "idle", "primary", "backup", "returned", "raised"
    apiLog,       \* the API calls call_openai has made: <<model, outcome, content>>
    apiAnswer,    \* what call_openai returned
    userFile,     \* userFile[s]: the list in the history file of user s (session s's user)
    globalFile,   \* the list in the global history file
    pc,           \* pc[s]: where session s is in ask_chatbot
    local,        \* local[s]: the local variables of session s's ask_chatbot call
    ret,          \* ret[s]: how session s's latest ask_chatbot call ended
    asks          \* the number of ask_chatbot calls made so far

VARIABLES
    profileFile,  \* profileFile[s]: the profile in the profile file of user s
    feedbackFile, \* the list of records in the feedback file
    cli,          \* cli[s]: the command loop of session s
    branches      \* the branch of the command loop that takes each line (it never changes)

resolverVars == <<seed, text, limit, called, raised, found, result>>
reportVars == <<request, tickers, quoteFail, insightFail, reported, reportRaised, report>>
helperVars == <<arg, out>>
openaiVars == <<apiState, apiLog, apiAnswer>>
cliVars == <<feedbackFile, cli, branches>>
chatVars == <<userFile, globalFile, profileFile, pc, local, ret, asks, cliVars>>
laterVars == <<helperVars, tables, round, openaiVars, chatVars>>
vars == <<resolverVars, reportVars, laterVars>>

NoHelper ==
    /\ arg = <<"none", "">>
    /\ out = <<>>

\* the tables as the module defines them at import
StaticTables ==
    [alias |-> [i \in 1..Len(AliasKeys) |-> <<AliasKeys[i], AliasValues[i]>>],
     allow |-> _STOCKHOLM_SUFFIX_CANDIDATES]

\* nothing but the resolver and the reports is in use
NoOpenAI ==
    /\ apiState = "idle"
    /\ apiLog = <<>>
    /\ apiAnswer = ""

NoLocals == [n |-> 0, lang |-> "", user_history |-> <<>>, global_history |-> <<>>,
             api_context |-> <<>>,
             answer |-> "", failed |-> FALSE, user0 |-> <<>>, global0 |-> <<>>]

NoReturn == [n |-> 0, kind |-> "none"]

\* what load_profile gives when there is no profile file (created_at is left out)
NoProfile == [name |-> None, preferred_language |-> None]

\* last_answer_for_feedback before any answer; of is the answer it holds
NoPending == [text |-> None, question |-> None, lang |-> "en", of |-> <<>>]

\* the command loop before its first line: turn counts the lines read,
\* input and branch are the last line and what was done with it, hadPending
\* tells whether an answer was pending when that line was read, waiting
\* that the loop is inside ask_chatbot, cleared the entries the last
\* clear_user_memory removed from the user's history; running is false once
\* the program has ended, by "exit" or by an exception
NoCli == [running |-> TRUE, turn |-> 0, input |-> "", branch |-> "none",
          last_answer_for_feedback |-> NoPending, hadPending |-> FALSE,
          waiting |-> FALSE, cleared |-> <<>>]

\* no history on disk, nobody in ask_chatbot
NoHistory ==
    /\ userFile = [s \in Sessions |-> <<>>]
    /\ globalFile = <<>>
    /\ profileFile = [s \in Sessions |-> NoProfile]
    /\ pc = [s \in Sessions |-> "idle"]
    /\ local = [s \in Sessions |-> NoLocals]
    /\ ret = [s \in Sessions |-> NoReturn]
    /\ asks = 0
    /\ feedbackFile = <<>>
    /\ cli = [s \in Sessions |-> NoCli]

\* and no command loop in use
NoChat ==
    /\ NoHistory
    /\ branches = <<>>

NoLater ==
    /\ NoHelper
    /\ tables = StaticTables
    /\ round = 1
    /\ NoOpenAI
    /\ NoChat

NoCalls ==
    /\ called = [s \in Sessions |-> FALSE]
    /\ raised = [s \in Sessions |-> FALSE]
    /\ found  = [s \in Sessions |-> <<>>]
    /\ result = [s \in Sessions |-> <<>>]

NoReports ==
    /\ reported = [s \in Sessions |-> FALSE]
    /\ reportRaised = [s \in Sessions |-> FALSE]
    /\ report = [s \in Sessions |-> <<>>]

\* the resolver on its own: any text, any limit, any hash salts
Init ==
    /\ seed \in [Sessions -> 0..(NumSeeds - 1)]
    /\ text \in Texts
    /\ limit \in Limits
    /\ NoCalls
    /\ request = "none"
    /\ tickers = <<>>
    /\ quoteFail = {}
    /\ insightFail = {}
    /\ NoReports
    /\ NoLater

\* session s calls resolve_tickers_from_text(text, limit); the model lets
\* each session resolve the text once
resolve_tickers_from_text(s) ==
    /\ ~called[s]
    /\ called' = [called EXCEPT ![s] = TRUE]
    /\ IF NormalizeRaises(text)
       THEN /\ raised' = [raised EXCEPT ![s] = TRUE]
            /\ UNCHANGED <<found, result>>
       ELSE LET f == Distinct(NewFound(found[s]) \o FoundInOrder(text, limit))
            IN  /\ found'  = [found EXCEPT ![s] = f]
                /\ result' = [result EXCEPT ![s] = NormalizeAndCut(SetIterOrder(f, seed[s]), limit)]
                /\ UNCHANGED raised
    /\ UNCHANGED <<seed, text, limit, reportVars, laterVars>>

Next == \E s \in Sessions : resolve_tickers_from_text(s)

Spec == Init /\ [][Next]_vars

(***************************************************************************)
(* Claims about the resolver                                               *)
(***************************************************************************)

Returned(s) == called[s] /\ ~raised[s]

NoDuplicates(seq) == \A i, j \in 1..Len(seq) : i # j => seq[i] # seq[j]

\* C1: for every text and every limit > 0 the returned list has no duplicate
\* ticker and at most limit entries.
C1_UniqueAndBounded ==
    \A s \in Sessions : Returned(s) =>
        /\ NoDuplicates(result[s])
        /\ Len(result[s]) <= limit

\* a call that found a candidate more than once and more candidates than the
\* limit allows, and returned several
C1_Witness ==
    \E s \in Sessions :
        /\ Returned(s)
        /\ Len(found[s]) > limit
        /\ Len(result[s]) >= 2
        /\ \E w \in Range(Split(_normalize_company_text(text))) : AliasIndex(w) # 0

\* C2: the returned list is in first-discovered order across the three
\* strategies, and truncation keeps the earliest-discovered candidates: the
\* result is the first limit members of found in the order they were added.
C2_FirstDiscoveredOrder ==
    \A s \in Sessions : Returned(s) => result[s] = Truncate(found[s], limit)

\* a token of 1 to 5 ASCII letters
ShortAsciiWord(tok) ==
    /\ Len(tok) \in 1..5
    /\ \A i \in 1..Len(tok) : UpperChar(Char(tok, i)) \in AsciiUpperSet

\* the whitespace-delimited tokens of the input text
InputTokens == IF text = None THEN {} ELSE Range(Split(text[1]))

\* C3 (as stated): with the default limit 3, every whitespace-delimited token
\* of 1 to 5 ASCII letters is in the returned list, in upper case.
C3_TokenIncluded ==
    \A s \in Sessions : Returned(s) /\ limit = 3 =>
        \A tok \in InputTokens : ShortAsciiWord(tok) => Upper(tok) \in Range(result[s])

\* C3 (amended): when the call finds no more candidates than the limit, every
\* whitespace-delimited token of 1 to 5 ASCII letters is in the returned list
\* in upper case, with ".ST" appended when it is in the Stockholm allow-list.
C3_TokenIncludedNormalized ==
    \A s \in Sessions : Returned(s) /\ Len(found[s]) <= limit =>
        \A tok \in InputTokens : ShortAsciiWord(tok) =>
            (IF Upper(tok) \in _STOCKHOLM_SUFFIX_CANDIDATES
             THEN Upper(tok) \o ".ST" ELSE Upper(tok)) \in Range(result[s])

\* a call at the default limit whose text has an allow-listed token next to
\* an ordinary one, both returned
C3_Witness ==
    \E s \in Sessions :
        /\ Returned(s) /\ limit = 3 /\ Len(found[s]) <= limit
        /\ \E tok \in InputTokens : ShortAsciiWord(tok) /\ Upper(tok) \in _STOCKHOLM_SUFFIX_CANDIDATES
        /\ \E tok \in InputTokens : ShortAsciiWord(tok) /\ Upper(tok) \in Range(result[s])

\* C4: two calls with identical text and limit return identical lists.
C4_Deterministic ==
    \A s1, s2 \in Sessions :
        Returned(s1) /\ Returned(s2) => result[s1] = result[s2]

\* C5: a call that finds more than limit distinct candidates returns exactly
\* limit tickers.
C5_LimitExact ==
    \A s \in Sessions : Returned(s) /\ Len(found[s]) > limit => Len(result[s]) = limit

\* a call that found more candidates than the limit
C5_Witness ==
    \E s \in Sessions : Returned(s) /\ Len(found[s]) > limit /\ limit = MaxLimit

\* C6: resolve_tickers_from_text("pris på tesla idag") includes "TSLA".
C6_TeslaIncluded ==
    \A s \in Sessions :
        Returned(s) /\ text = Some("pris på tesla idag") /\ limit = 3 =>
            "TSLA" \in Range(result[s])

\* C7: resolve_tickers_from_text("vad kostar H&M och Ericsson") includes both
\* "HM-B.ST" and "ERIC-B.ST".
C7_HmAndEricssonIncluded ==
    \A s \in Sessions :
        Returned(s) /\ text = Some("vad kostar H&M och Ericsson") /\ limit = 3 =>
            {"HM-B.ST", "ERIC-B.ST"} \subseteq Range(result[s])

\* C8: resolve_tickers_from_text("ERIC-B") returns exactly ["ERIC-B.ST"]
\* (at the default limit and at every other limit).
C8_BareEricB ==
    \A s \in Sessions :
        called[s] /\ text = Some("ERIC-B") => ~raised[s] /\ result[s] = <<"ERIC-B.ST">>

C8_Witness ==
    \E s \in Sessions : called[s] /\ text = Some("ERIC-B") /\ limit = 3 /\ found[s] = <<"ERIC-B.ST">>

\* the inputs without any token
GarbageTexts == {None, Some(""), Some("???"), Some("12345")}

\* C9: for "", "???", "12345" and None the call does not raise and returns
\* the empty list.
C9_GarbageGivesEmpty ==
    \A s \in Sessions :
        called[s] /\ text \in GarbageTexts => ~raised[s] /\ result[s] = <<>>

C9_Witness == \E s \in Sessions : called[s] /\ text = None /\ result[s] = <<>>

\* the upper-cased tokens of the text that have ticker shape, before the
\* suffix normalizer sees them
RawPatternCandidates ==
    IF NormalizeRaises(text) THEN {}
    ELSE {Upper(w) : w \in {v \in Range(Split(_normalize_company_text(text))) : TickerShape(Upper(v))}}

\* what the claim says a candidate looks like in the result
WithStockholmSuffix(c) ==
    IF Upper(c) \in _STOCKHOLM_SUFFIX_CANDIDATES THEN Upper(c) \o ".ST" ELSE Upper(c)

\* C13: no returned ticker is a bare member of the Stockholm allow-list: a
\* candidate whose upper-cased form is in the allow-list is in the result
\* with ".ST" appended once, any other candidate is there upper-cased and
\* otherwise unchanged (a candidate is in the result when the call finds no
\* more candidates than limit).
C13_SuffixInvariant ==
    \A s \in Sessions :
        Returned(s) =>
            /\ \A i \in 1..Len(result[s]) :
                  /\ result[s][i] \notin _STOCKHOLM_SUFFIX_CANDIDATES
                  /\ result[s][i] = Upper(result[s][i])
                  /\ result[s][i] \in {WithStockholmSuffix(c) : c \in RawPatternCandidates}
                                        \cup Range(AliasValues)
            /\ Len(found[s]) <= limit =>
                  \A c \in RawPatternCandidates : WithStockholmSuffix(c) \in Range(result[s])

\* "sand" was typed next to a ticker outside the allow-list, and both are
\* in the result
C13_Witness ==
    \E s \in Sessions :
        /\ Returned(s)
        /\ {"SAND", "AAPL"} \subseteq RawPatternCandidates
        /\ Range(result[s]) = {"SAND.ST", "AAPL"}

(***************************************************************************)
(* Alias names typed by the user                                           *)
(***************************************************************************)

\* the alias names the claim singles out, typed alone and after another word
TypedAliases == {"hm", "h&m", "eric-b", "atlas copco"}

AliasTexts == {Some(k) : k \in TypedAliases} \cup {Some("köp " \o k) : k \in TypedAliases}

AliasInit ==
    /\ seed \in [Sessions -> 0..(NumSeeds - 1)]
    /\ text \in AliasTexts
    /\ limit \in Limits
    /\ NoCalls
    /\ request = "none"
    /\ tickers = <<>>
    /\ quoteFail = {}
    /\ insightFail = {}
    /\ NoReports
    /\ NoLater

SpecAlias == AliasInit /\ [][Next]_vars

\* the user typed the alias name k: it stands in the lower-cased text between
\* spaces or the ends of the text
TypedIn(k, raw) ==
    LET low == Lower(raw)
    IN  \E i \in 1..Len(low) :
            LET j == i + Len(k) - 1
            IN  /\ j <= Len(low)
                /\ SubSeq(low, i, j) = k
                /\ (i = 1 \/ Char(low, i - 1) = " ")
                /\ (j = Len(low) \/ Char(low, j + 1) = " ")

\* C14: exact alias membership holds for every alias key the user types,
\* "hm", "h&m", "eric-b" and "atlas copco" included: the alias's ticker is
\* in the result whenever the call finds no more candidates than limit.
C14_TypedAliasIncluded ==
    \A s \in Sessions :
        (Returned(s) /\ Len(found[s]) <= limit) =>
            \A i \in 1..Len(AliasKeys) :
                TypedIn(AliasKeys[i], text[1]) => AliasValues[i] \in Range(result[s])

(***************************************************************************)
(* Repeated calls of the resolver                                          *)
(***************************************************************************)

MaxRounds == 2

RepeatTexts == {None, Some("AAPL"), Some("sand tesla")}

CallsInit ==
    /\ Init
    /\ text \in RepeatTexts

\* the command loop reads the next line: every session is given another text
\* to resolve; what the previous calls left behind stays where it is
next_request ==
    /\ round < MaxRounds
    /\ \A s \in Sessions : called[s]
    /\ round' = round + 1
    /\ text' \in RepeatTexts
    /\ limit' \in Limits
    /\ called' = [s \in Sessions |-> FALSE]
    /\ raised' = [s \in Sessions |-> FALSE]
    /\ UNCHANGED <<seed, found, result, reportVars, helperVars, tables, openaiVars, chatVars>>

CallsNext == next_request \/ \E s \in Sessions : resolve_tickers_from_text(s)

SpecCalls == CallsInit /\ [][CallsNext]_vars

\* C12: resolve_tickers_from_text has no side effects: after any sequence of
\* calls the alias table and the allow-list are as the module defined them,
\* and a call returns what the same call returns in a process that has made
\* no call before (nothing carries over from the previous call).
C12_NoSideEffects ==
    /\ tables = StaticTables
    /\ \A s \in Sessions :
          Returned(s) =>
              result[s] = NormalizeAndCut(SetIterOrder(FoundInOrder(text, limit), seed[s]), limit)

\* a session has made a second call, with another text than a call before
\* it that found something
C12_Witness ==
    \E s \in Sessions :
        /\ round = 2
        /\ Returned(s)
        /\ result[s] # <<>>
        /\ \E o \in Sessions : ~called[o] /\ found[o] # <<>> /\ found[o] # found[s]

(***************************************************************************)
(* Report generation: get_stock_report and get_freeform_stock_report       *)
(***************************************************************************)

MaxTickers == 2

\* the tickers the market-data provider has a price history for: for any
\* other ticker _fetch_history raises RuntimeError
Listed == {"AAPL", "TSLA"}

\* the tickers a caller may pass to get_stock_report
TickerPool == <<"AAPL", "tsla", "PRIS">>

RECURSIVE TickerLists(_)
TickerLists(n) ==
    IF n = 0 THEN {<<>>}
    ELSE LET shorter == TickerLists(n - 1)
         IN  shorter \cup {Append(l, TickerPool[i]) : l \in shorter, i \in 1..Len(TickerPool)}

\* the texts a caller may pass to get_freeform_stock_report
ReportTexts == {None, Some("???"), Some("AAPL tesla")}

\* get_quote(t) followed by format_quote raises
QuoteRaises(t) == Upper(t) \notin Listed \/ Upper(t) \in quoteFail

\* get_insights(t) followed by format_insight raises
InsightRaises(t) == Upper(t) \notin Listed \/ Upper(t) \in insightFail

\* a line of a report: what it shows and for which ticker
Line(kind, t) == [kind |-> kind, ticker |-> t]
Blank == Line("blank", "")
NoCompany == Line("no_company", "")

\* both calls in one try: a failing quote skips the insights
StockBlock_OneTry(t) ==
    IF QuoteRaises(t) THEN <<Line("quote_failed", Upper(t)), Blank>>
    ELSE IF InsightRaises(t) THEN <<Line("quote", Upper(t)), Line("insight_failed", Upper(t)), Blank>>
    ELSE <<Line("quote", Upper(t)), Line("insight", Upper(t)), Blank>>

\* the body of the loop of get_stock_report: the two try blocks and the
\* blank line
StockBlock(t) ==
    << IF QuoteRaises(t) THEN Line("quote_failed", Upper(t)) ELSE Line("quote", Upper(t)),
       IF InsightRaises(t) THEN Line("insight_failed", Upper(t)) ELSE Line("insight", Upper(t)),
       Blank >>

\* the body of the loop of get_freeform_stock_report: one try block around
\* quote, insights, signals and formatting, and the blank line
FreeformBlock(t) ==
    << IF QuoteRaises(t) \/ InsightRaises(t) THEN Line("failed", t) ELSE Line("full", t),
       Blank >>

\* the lines the loop has collected, from the blocks of its rounds
RECURSIVE CollectLines(_)
CollectLines(blocks) ==
    IF blocks = <<>> THEN <<>>
    ELSE blocks[1] \o CollectLines(Tail(blocks))

\* "\n".join(lines).strip(): the blank lines at both ends go
RECURSIVE Strip(_)
Strip(lines) ==
    IF lines = <<>> THEN <<>>
    ELSE IF lines[1] = Blank THEN Strip(Tail(lines))
    ELSE IF lines[Len(lines)] = Blank THEN Strip(SubSeq(lines, 1, Len(lines) - 1))
    ELSE lines

\* a list of tickers, or a free text, with any listed tickers failing
ReportInit ==
    /\ seed \in [Sessions -> 0..(NumSeeds - 1)]
    /\ limit = 3
    /\ NoCalls
    /\ NoReports
    /\ quoteFail \in SUBSET Listed
    /\ insightFail \in SUBSET Listed
    /\ NoLater
    /\ \/ request = "stock" /\ tickers \in TickerLists(MaxTickers) /\ text = None
       \/ request = "freeform" /\ tickers = <<>> /\ text \in ReportTexts

\* session s calls get_stock_report(tickers)
get_stock_report(s) ==
    /\ request = "stock"
    /\ ~reported[s]
    /\ reported' = [reported EXCEPT ![s] = TRUE]
    /\ report' = [report EXCEPT ![s] = Strip(CollectLines([i \in 1..Len(tickers) |-> StockBlock(tickers[i])]))]
    /\ UNCHANGED <<resolverVars, request, tickers, quoteFail, insightFail, reportRaised, laterVars>>

\* session s calls get_freeform_stock_report(text): the resolver runs outside
\* any try block, so that what it raises leaves the function
get_freeform_stock_report(s) ==
    /\ request = "freeform"
    /\ ~reported[s]
    /\ reported' = [reported EXCEPT ![s] = TRUE]
    /\ called' = [called EXCEPT ![s] = TRUE]
    /\ IF NormalizeRaises(text)
       THEN /\ raised' = [raised EXCEPT ![s] = TRUE]
            /\ reportRaised' = [reportRaised EXCEPT ![s] = TRUE]
            /\ UNCHANGED <<found, result, report>>
       ELSE LET f == FoundInOrder(text, 3)
                resolved == NormalizeAndCut(SetIterOrder(f, seed[s]), 3)
            IN  /\ found'  = [found EXCEPT ![s] = f]
                /\ result' = [result EXCEPT ![s] = resolved]
                /\ report' = [report EXCEPT ![s] =
                                 IF resolved = <<>> THEN <<NoCompany>>
                                 ELSE Strip(CollectLines([i \in 1..Len(resolved) |-> FreeformBlock(resolved[i])]))]
                /\ UNCHANGED <<raised, reportRaised>>
    /\ UNCHANGED <<seed, text, limit, request, tickers, quoteFail, insightFail, laterVars>>

ReportNext ==
    \E s \in Sessions : get_stock_report(s) \/ get_freeform_stock_report(s)

SpecReport == ReportInit /\ [][ReportNext]_vars

(***************************************************************************)
(* Claims about report generation                                          *)
(***************************************************************************)

\* the parts of a report between its blank lines (as str.split does it: n
\* blank lines give n + 1 parts)
RECURSIVE SplitBlocks(_, _)
SplitBlocks(lines, cur) ==
    IF lines = <<>> THEN <<cur>>
    ELSE IF lines[1] = Blank THEN <<cur>> \o SplitBlocks(Tail(lines), <<>>)
    ELSE SplitBlocks(Tail(lines), Append(cur, lines[1]))

\* the tickers the report of session s is about
ReportTickers(s) == IF request = "stock" THEN tickers ELSE result[s]

\* the block a ticker must get: failure lines for what failed, the normal
\* lines otherwise
ExpectedBlock(t) ==
    IF request = "stock"
    THEN << Line(IF QuoteRaises(t) THEN "quote_failed" ELSE "quote", Upper(t)),
            Line(IF InsightRaises(t) THEN "insight_failed" ELSE "insight", Upper(t)) >>
    ELSE << Line(IF QuoteRaises(t) \/ InsightRaises(t) THEN "failed" ELSE "full", t) >>

\* C10: whatever tickers fail, the report call does not raise and its output
\* has one block per input ticker, in input order, a failure line for each
\* failing ticker and the normal report for every other one.
C10_ReportContinues ==
    \A s \in Sessions : reported[s] =>
        /\ ~reportRaised[s]
        /\ LET ts == ReportTickers(s)
               blocks == SplitBlocks(report[s], <<>>)
           IN  IF ts = <<>>
               THEN report[s] = (IF request = "stock" THEN <<>> ELSE <<NoCompany>>)
               ELSE /\ Len(blocks) = Len(ts)
                    /\ \A i \in 1..Len(ts) : blocks[i] = ExpectedBlock(ts[i])

\* a report whose first ticker fails on the quote and whose second ticker is
\* reported in full
C10_Witness ==
    \E s \in Sessions :
        /\ reported[s] /\ request = "stock" /\ Len(tickers) = 2
        /\ QuoteRaises(tickers[1]) /\ ~QuoteRaises(tickers[2]) /\ ~InsightRaises(tickers[2])
        /\ report[s][Len(report[s])] = Line("insight", Upper(tickers[2]))

(***************************************************************************)
(* The helpers applied on their own                                        *)
(***************************************************************************)

MaxSuffixes == 2
MaxTokenLen == 3
MaxTextLen == 3

\* ticker strings: a stem in some case, followed by up to n market suffixes
Stems == {"sand", "SAND", "Eric-B", "evo", "hm-b", "aapl", "TSLA", "sandvik", ""}
MarketSuffixes == {".ST", ".st", ".US"}

RECURSIVE WithSuffixes(_)
WithSuffixes(n) ==
    IF n = 0 THEN Stems
    ELSE LET fewer == WithSuffixes(n - 1)
         IN  fewer \cup {t \o x : t \in fewer, x \in MarketSuffixes}

TickerInputs == WithSuffixes(MaxSuffixes)

MaxChoices == 4

\* what the scorer may give an alias
ScoreLevels == {0, 79, 80, 90, 100}

\* the scores of the first aliases of the table, as the scorer gives them
GivenScores == [1..MaxChoices -> ScoreLevels]

\* tokens as the Token Extractor produces them: every string of up to n
\* characters of TokenChars, and some longer ones
TokenChars == <<"a", "å", "-", ".">>

RECURSIVE TokensUpTo(_)
TokensUpTo(n) ==
    IF n = 0 THEN {""}
    ELSE LET shorter == TokensUpTo(n - 1)
         IN  shorter \cup {t \o TokenChars[i] : t \in shorter, i \in 1..Len(TokenChars)}

ExampleTokens ==
    {"abcde", "abcdef", "eric-b", "volv-b.st", "abcde-f.stoc", "abcde-f.stock",
     "sand.st", "sand.s", "sand.stock", "a-bc", "a.bc-d", "eric--b", "a-b-c",
     "a.st.st", "aapl.", "eric-", "göteborg", "tesla", "microsoft"}

Tokens == (TokensUpTo(MaxTokenLen) \ {""}) \cup ExampleTokens

\* raw texts: every string of up to n characters of RawChars (letters in
\* both cases, a hyphen, a period, a space, a digit, an ampersand and the
\* Kelvin sign)
RawChars == <<"A", "b", "å", "Ö", "-", ".", " ", "1", "&", KelvinSign>>

RECURSIVE RawUpTo(_)
RawUpTo(n) ==
    IF n = 0 THEN {""}
    ELSE LET shorter == RawUpTo(n - 1)
         IN  shorter \cup {t \o RawChars[i] : t \in shorter, i \in 1..Len(RawChars)}

RawTexts == RawUpTo(MaxTextLen) \cup ExampleTexts

HelperInit ==
    /\ seed = [s \in Sessions |-> 0]
    /\ text = None
    /\ \/ limit = 3 /\ arg \in {<<"ticker", t>> : t \in TickerInputs}
       \/ limit \in Limits /\ arg \in {<<"scores", sc>> : sc \in GivenScores}
       \/ limit = 3 /\ arg \in {<<"token", t>> : t \in Tokens}
       \/ limit = 3 /\ arg \in {<<"raw", t>> : t \in RawTexts}
    /\ NoCalls
    /\ request = "none"
    /\ tickers = <<>>
    /\ quoteFail = {}
    /\ insightFail = {}
    /\ NoReports
    /\ tables = StaticTables
    /\ round = 1
    /\ NoOpenAI
    /\ NoChat
    /\ out = <<>>

\* _maybe_append_st applied to the argument, and then to what it returned
apply_maybe_append_st ==
    /\ arg[1] = "ticker"
    /\ Len(out) < 2
    /\ out' = Append(out, _maybe_append_st(IF out = <<>> THEN arg[2] ELSE out[Len(out)]))
    /\ UNCHANGED <<resolverVars, reportVars, arg, tables, round, openaiVars, chatVars>>

\* the fuzzy step of the resolver with the scorer's values given: the
\* aliases process.extract retains, as <<alias, ticker>>
apply_fuzzy_step ==
    /\ arg[1] = "scores"
    /\ out = <<>>
    /\ LET scored  == [i \in 1..Len(arg[2]) |-> <<i, <<arg[2][i], 100>>>>]
           matches == ExtractScored(scored, limit)
       IN  out' = <<[k \in 1..Len(matches) |-> <<matches[k][1], AliasValues[matches[k][1]]>>]>>
    /\ UNCHANGED <<resolverVars, reportVars, arg, tables, round, openaiVars, chatVars>>

\* the pattern step of the resolver on one token: the candidates it adds
apply_ticker_pattern ==
    /\ arg[1] = "token"
    /\ out = <<>>
    /\ out' = <<PatternCandidates(<<arg[2]>>)>>
    /\ UNCHANGED <<resolverVars, reportVars, arg, tables, round, openaiVars, chatVars>>

\* _normalize_company_text applied to a raw text
apply_normalize_company_text ==
    /\ arg[1] = "raw"
    /\ out = <<>>
    /\ out' = <<_normalize_company_text(Some(arg[2]))>>
    /\ UNCHANGED <<resolverVars, reportVars, arg, tables, round, openaiVars, chatVars>>

HelperNext ==
    \/ apply_maybe_append_st
    \/ apply_fuzzy_step
    \/ apply_ticker_pattern
    \/ apply_normalize_company_text

SpecHelper == HelperInit /\ [][HelperNext]_vars

\* C11: idempotence of the Market Suffix Normalizer: applying
\* _maybe_append_st to its own result gives that result again, for every
\* ticker string.
C11_SuffixIdempotent ==
    (arg[1] = "ticker" /\ Len(out) = 2) => out[2] = out[1]

\* a ticker of the allow-list has got its suffix, and the second application
\* has run
C11_Witness ==
    /\ arg[1] = "ticker"
    /\ Len(out) = 2
    /\ Upper(arg[2]) \in _STOCKHOLM_SUFFIX_CANDIDATES
    /\ out[1] = Upper(arg[2]) \o ".ST"

\* alias i comes before alias j in the fuzzy step's ranking: a higher score,
\* or the same score and an earlier place in the table
RanksBefore(sc, i, j) == sc[i] > sc[j] \/ (sc[i] = sc[j] /\ i < j)

\* C15: the fuzzy step, the scorer being a given function into 0..100: an
\* alias contributes its ticker only with a score of at least 80; at most
\* limit aliases are retained; they are the highest-scoring ones; equal
\* scores keep the order of the alias table.
C15_FuzzyStep ==
    (arg[1] = "scores" /\ out # <<>>) =>
        LET sc == arg[2]
            m  == out[1]
            kept == {m[k][1] : k \in 1..Len(m)}
        IN  /\ Len(m) <= limit
            /\ \A k \in 1..Len(m) :
                  /\ m[k][1] \in 1..MaxChoices
                  /\ sc[m[k][1]] >= 80
                  /\ m[k][2] = AliasValues[m[k][1]]
            /\ \A k, l \in 1..Len(m) : k < l => RanksBefore(sc, m[k][1], m[l][1])
            /\ \A i \in (1..MaxChoices) \ kept :
                  sc[i] >= 80 =>
                      /\ Len(m) = limit
                      /\ \A j \in kept : RanksBefore(sc, j, i)

\* more aliases than limit pass the cutoff, two of them with the same score,
\* and one alias scores just below the cutoff
C15_Witness ==
    /\ arg[1] = "scores"
    /\ out # <<>>
    /\ Len(out[1]) = limit
    /\ Cardinality({i \in 1..MaxChoices : arg[2][i] >= 80}) > limit
    /\ \E k \in 1..(Len(out[1]) - 1) : arg[2][out[1][k][1]] = arg[2][out[1][k + 1][1]]
    /\ \E i \in 1..MaxChoices : arg[2][i] = 79

\* the letters A to Z
Letters == CharsOf("ABCDEFGHIJKLMNOPQRSTUVWXYZ")

\* up is made of n letters, then "-" and a letter if h = 1, then "." and p
\* letters if p > 0
ShapedAs(up, n, h, p) ==
    /\ Len(up) = n + 2 * h + (IF p > 0 THEN p + 1 ELSE 0)
    /\ \A i \in 1..n : Char(up, i) \in Letters
    /\ h = 1 => (Char(up, n + 1) = "-" /\ Char(up, n + 2) \in Letters)
    /\ p > 0 => /\ Char(up, n + 2 * h + 1) = "."
                /\ \A i \in (n + 2 * h + 2)..Len(up) : Char(up, i) \in Letters

\* C16: a token becomes a pattern candidate if and only if its upper-cased
\* form is 1 to 5 letters A-Z, optionally a hyphen and one letter, optionally
\* a period and 2 to 4 letters; no token of another shape becomes one.
C16_PatternIff ==
    (arg[1] = "token" /\ out # <<>>) =>
        (out[1] # <<>>
            <=> \E n \in 1..5, h \in {0, 1}, p \in {0, 2, 3, 4} : ShapedAs(Upper(arg[2]), n, h, p))

\* a token with share class and market suffix has become a candidate, in
\* upper case
C16_Witness ==
    /\ arg = <<"token", "volv-b.st">>
    /\ out = << <<"VOLV-B.ST">> >>

\* the characters a normalized text may be made of, the joining space aside
NormalizedChars == CharsOf("abcdefghijklmnopqrstuvwxyzåäö-.")

\* C17: the Token Extractor returns only lower-case letters of the class,
\* hyphens and periods, joined by single spaces with none at the ends; every
\* character outside the class splits tokens and is dropped, and the tokens
\* keep their order: the result is the raw text's runs of class characters,
\* lower-cased and joined.
C17_TokenExtractor ==
    (arg[1] = "raw" /\ out # <<>>) =>
        LET r == out[1]
            runs == FindAll(arg[2])
        IN  /\ \A i \in 1..Len(r) : Char(r, i) \in NormalizedChars \cup {" "}
            /\ r # "" => (Char(r, 1) # " " /\ Char(r, Len(r)) # " ")
            /\ \A i \in 1..(Len(r) - 1) : ~(Char(r, i) = " " /\ Char(r, i + 1) = " ")
            /\ r = Join([i \in 1..Len(runs) |-> Lower(runs[i])])

(***************************************************************************)
(* openai_chat.py: call_openai and _once                                   *)
(***************************************************************************)

PRIMARY == "gpt-4o-mini"
BACKUP == "gpt-4o-mini-2024-08"

\* stop_after_attempt(3)
StopAfterAttempt == 3

\* the texts a response may carry
Contents == {"hej", " hello \n"}

\* what one API call of _once may do: create() raises; the response carries
\* no text, so that .strip() raises; the response carries a text
Outcomes ==
    {<<"error", "">>, <<"no_content", "">>} \cup {<<"ok", c>> : c \in Contents}

Whitespace == {" ", "\n"}

\* str.strip()
RECURSIVE StripText(_)
StripText(c) ==
    IF c = "" THEN ""
    ELSE IF Char(c, 1) \in Whitespace THEN StripText(Tail(c))
    ELSE IF Char(c, Len(c)) \in Whitespace THEN StripText(SubSeq(c, 1, Len(c) - 1))
    ELSE c

\* the calls made to model m so far
CallsTo(m) == SelectSeq(apiLog, LAMBDA e : e[1] = m)

\* a failure handled without retry: the first failure of _once leaves it
AfterFailure_NoRetry(state, n) == IF state = "primary" THEN "backup" ELSE "raised"

\* where call_openai is after the n-th failed attempt of the model it is
\* calling: tenacity retries until the third attempt has failed, then
\* re-raises; call_openai catches what the primary raises and turns to the
\* backup, and lets through what the backup raises
AfterFailure(state, n) ==
    IF n < StopAfterAttempt THEN state
    ELSE IF state = "primary" THEN "backup" ELSE "raised"

OpenAIInit ==
    /\ seed = [s \in Sessions |-> 0]
    /\ text = None
    /\ limit = 3
    /\ NoCalls
    /\ request = "none"
    /\ tickers = <<>>
    /\ quoteFail = {}
    /\ insightFail = {}
    /\ NoReports
    /\ NoHelper
    /\ tables = StaticTables
    /\ round = 1
    /\ apiState = "idle"
    /\ apiLog = <<>>
    /\ apiAnswer = ""
    /\ NoChat

\* call_openai is entered
call_openai ==
    /\ apiState = "idle"
    /\ apiState' = "primary"
    /\ UNCHANGED <<resolverVars, reportVars, helperVars, tables, round, apiLog, apiAnswer, chatVars>>

\* one attempt of _once for model m: one call of the API and what follows
\* from its outcome
_once(m) ==
    /\ apiState = (IF m = PRIMARY THEN "primary" ELSE "backup")
    /\ \E o \in Outcomes :
          /\ apiLog' = Append(apiLog, <<m, o[1], o[2]>>)
          /\ IF o[1] = "ok"
             THEN /\ apiState' = "returned"
                  /\ apiAnswer' = StripText(o[2])
             ELSE /\ apiState' = AfterFailure(apiState, Len(CallsTo(m)) + 1)
                  /\ UNCHANGED apiAnswer
    /\ UNCHANGED <<resolverVars, reportVars, helperVars, tables, round, chatVars>>

OpenAINext == call_openai \/ _once(PRIMARY) \/ _once(BACKUP)

SpecOpenAI == OpenAIInit /\ [][OpenAINext]_vars

\* C18: call_openai calls the primary model up to 3 times and the backup
\* model only after 3 failures of the primary in a row, then up to 3 times;
\* it returns the response of the first successful call, makes no call after
\* a success and at most 6 calls, and raises only when all 6 calls failed.
C18_FallbackOrder ==
    LET n == Len(apiLog)
        p == Len(CallsTo("gpt-4o-mini"))
        failed(i) == apiLog[i][2] # "ok"
    IN  /\ n <= 6
        /\ p <= 3 /\ n - p <= 3
        /\ \A i \in 1..n : apiLog[i][1] = (IF i <= p THEN "gpt-4o-mini" ELSE "gpt-4o-mini-2024-08")
        /\ n > p => (p = 3 /\ \A i \in 1..3 : failed(i))
        /\ \A i \in 1..(n - 1) : failed(i)
        /\ apiState = "returned" <=> (n > 0 /\ ~failed(n))
        /\ apiState = "returned" => apiAnswer = StripText(apiLog[n][3])
        /\ apiState = "raised" => (n = 6 /\ \A i \in 1..6 : failed(i))
        /\ (n = 6 /\ failed(6)) => apiState = "raised"

\* the backup answered at its second attempt, after three failures of the
\* primary
C18_Witness ==
    /\ apiState = "returned"
    /\ Len(apiLog) = 5
    /\ apiLog[5][1] = BACKUP
    /\ apiAnswer = "hello"

(***************************************************************************)
(* memory.py: detect_lang and ask_chatbot, with the history files of       *)
(* utils_io.py.  Session s is the CLI process of the user with id s.       *)
(***************************************************************************)

MaxAsks == 2

\* what the user may type
ChatInputs == {"", "  ", "hej du ", "helo"}

\* what langdetect may say of a text: a language code, or nothing usable
\* (another code, or LangDetectException)
Guesses == {"sv", "en", "ar", "other"}

\* the command loop asks for feedback on an answer of this many characters
\* or more
FeedbackMinLen == 200

\* an answer of 200 characters, and one of 199
FiftyChars == "Svar svar svar svar svar svar svar svar svar svar."
LongAnswer == FiftyChars \o FiftyChars \o FiftyChars \o FiftyChars
ShortAnswer == Tail(LongAnswer)

\* what call_openai may return
Answers == {ShortAnswer, LongAnswer}

_SV_HINTS == {"hej", "tack", "snälla", "förlåt", "jag", "heter", "hur", "mår", "bra", "då", "nej", "ja"}

StartsWithAny(t, prefixes) == \E q \in prefixes : Len(t) >= Len(q) /\ SubSeq(t, 1, Len(q)) = q

\* detect_lang(text), guess being what langdetect says.  The test for
\* Arabic letters is left out: no text of the model has any.
detect_lang(txt, guess) ==
    LET t == Lower(StripText(txt))
    IN  IF t = "" THEN "en"
        ELSE IF CharsOf(t) \cap {"å", "ä", "ö"} # {} THEN "sv"
        ELSE IF Range(Split(t)) \cap _SV_HINTS # {} THEN "sv"
        ELSE IF guess \in {"sv", "en", "ar"} THEN guess
        ELSE IF StartsWithAny(t, {"hej", "tja", "tjena"}) THEN "sv"
        ELSE "en"

\* conservative_spell_fix(text, language): with the spell checker installed
\* and an English text, the words it does not know are replaced ("helo" is
\* the one such word of the model) and the words joined by single spaces
conservative_spell_fix(txt, language, hasSpell) ==
    IF ~hasSpell \/ language # "en" THEN txt
    ELSE LET toks == Split(txt)
         IN  Join([i \in 1..Len(toks) |-> IF toks[i] = "helo" THEN "hello" ELSE toks[i]])

\* the texts of fallback_message (the Arabic one is abridged to Latin letters)
FallbackTexts ==
    [sv |-> "Oj, något gick fel när jag kontaktade modellen. Kan du prova igen?",
     ar |-> "(ar) Oops, something went wrong contacting the model.",
     en |-> "Oops, something went wrong contacting the model. Please try again."]

\* a fallback that answers in English whatever the language
fallback_message_English(lang) == FallbackTexts.en

\* texts.get(lang, texts["en"])
fallback_message(lang) ==
    IF lang \in DOMAIN FallbackTexts THEN FallbackTexts[lang] ELSE FallbackTexts.en

\* a history entry; ts is the number of the call that made it
Message(role, content, n) == [role |-> role, content |-> content, ts |-> n]

USER_MEMORY_LIMIT == 50
GLOBAL_MEMORY_LIMIT == 20

\* h[-n:]
LastN(h, n) == SubSeq(h, Max(1, Len(h) - n + 1), Len(h))

\* a context made of the user's own history only
Trimmed_UserOnly(global_history, user_history) == LastN(user_history, USER_MEMORY_LIMIT)

\* trimmed: the end of the global history, then the end of the user's
Trimmed(global_history, user_history) ==
    LastN(global_history, GLOBAL_MEMORY_LIMIT) \o LastN(user_history, USER_MEMORY_LIMIT)

\* api_context: the role and the content of the trimmed entries
ApiContext(trimmed) ==
    [i \in 1..Len(trimmed) |-> [role |-> trimmed[i].role, content |-> trimmed[i].content]]

\* how a call that reached the model ended
Completed(s, userOk, globalOk) ==
    LET l == local[s]
        h == l.user_history
    IN  [n |-> l.n, kind |-> "answered", answer |-> l.answer, lang |-> l.lang,
         failed |-> l.failed, wrote |-> <<userOk, globalOk>>,
         user0 |-> l.user0, global0 |-> l.global0,
         msgs |-> SubSeq(h, Len(h) - 1, Len(h))]

ChatInit ==
    /\ seed = [s \in Sessions |-> 0]
    /\ text = None
    /\ limit = 3
    /\ NoCalls
    /\ request = "none"
    /\ tickers = <<>>
    /\ quoteFail = {}
    /\ insightFail = {}
    /\ NoReports
    /\ NoLater

\* maybe_update_profile_from_text, on the profile load_profile gave: the
\* language of the first message becomes the preferred language.  The search
\* for a name is left out: no text of the model says a name.
maybe_update_profile_from_text(profile, lang_hint) ==
    [profile EXCEPT !.preferred_language = IF @ = None \/ @ = Some("") THEN Some(lang_hint) ELSE @]

\* ask_chatbot(client, input, s) up to the call of the model (lines 82-119):
\* the empty input returns at once; the profile is rewritten, which raises
\* when the file cannot be written; both histories are loaded and get the
\* user message, and the context for the model is cut from them
ask_chatbot_call(s, input) ==
    /\ pc[s] = "idle"
    /\ asks < MaxAsks
    /\ asks' = asks + 1
    /\ \E guess \in Guesses, hasSpell \in BOOLEAN, profileOk \in BOOLEAN :
          LET user_input == StripText(input)
              language == detect_lang(user_input, guess)
              user_msg == Message("user", conservative_spell_fix(user_input, language, hasSpell), asks + 1)
          IN  IF user_input = ""
              THEN /\ ret' = [ret EXCEPT ![s] = [n |-> asks + 1, kind |-> "empty",
                                                 answer |-> "Please type something.", lang |-> "en"]]
                   /\ UNCHANGED <<pc, local, profileFile>>
              ELSE IF ~profileOk
              THEN /\ ret' = [ret EXCEPT ![s] = [n |-> asks + 1, kind |-> "raised"]]
                   /\ UNCHANGED <<pc, local, profileFile>>
              ELSE /\ profileFile' = [profileFile EXCEPT ![s] =
                                         maybe_update_profile_from_text(@, language)]
                   /\ local' = [local EXCEPT ![s] =
                                   [n |-> asks + 1, lang |-> language,
                                    user_history |-> Append(userFile[s], user_msg),
                                    global_history |-> Append(globalFile, user_msg),
                                    api_context |-> ApiContext(Trimmed(Append(globalFile, user_msg),
                                                                       Append(userFile[s], user_msg))),
                                    answer |-> "", failed |-> FALSE,
                                    user0 |-> userFile[s], global0 |-> globalFile]]
                   /\ pc' = [pc EXCEPT ![s] = "calling"]
                   /\ UNCHANGED ret
    /\ UNCHANGED <<resolverVars, reportVars, helperVars, tables, round, openaiVars, userFile, globalFile>>

\* a call of ask_chatbot on its own, with whatever the user typed
ask_chatbot(s) ==
    /\ \E input \in ChatInputs : ask_chatbot_call(s, input)
    /\ UNCHANGED cliVars

\* lines 116-131: call_openai returns an answer or raises, and the assistant
\* message goes to both lists
call_model(s) ==
    /\ pc[s] = "calling"
    /\ \E o \in Answers \cup {"raises"} :
          LET answer == IF o = "raises" THEN fallback_message(local[s].lang) ELSE o
              assistant_msg == Message("assistant", answer, local[s].n)
          IN  local' = [local EXCEPT ![s].answer = answer,
                                     ![s].failed = (o = "raises"),
                                     ![s].user_history = Append(@, assistant_msg),
                                     ![s].global_history = Append(@, assistant_msg)]
    /\ pc' = [pc EXCEPT ![s] = "saving_user"]
    /\ UNCHANGED <<resolverVars, reportVars, helperVars, tables, round, openaiVars,
                   userFile, globalFile, profileFile, ret, asks, cliVars>>

\* line 134: the user's file is rewritten with the whole list; when the file
\* cannot be written the except branch logs it and the call returns
save_user(s) ==
    /\ pc[s] = "saving_user"
    /\ \E ok \in BOOLEAN :
          IF ok
          THEN /\ userFile' = [userFile EXCEPT ![s] = local[s].user_history]
               /\ pc' = [pc EXCEPT ![s] = "saving_global"]
               /\ UNCHANGED ret
          ELSE /\ pc' = [pc EXCEPT ![s] = "idle"]
               /\ ret' = [ret EXCEPT ![s] = Completed(s, FALSE, FALSE)]
               /\ UNCHANGED userFile
    /\ UNCHANGED <<resolverVars, reportVars, helperVars, tables, round, openaiVars,
                   globalFile, profileFile, local, asks, cliVars>>

\* line 135 and the return: the global file is rewritten with the whole list
save_global(s) ==
    /\ pc[s] = "saving_global"
    /\ \E ok \in BOOLEAN :
          /\ globalFile' = IF ok THEN local[s].global_history ELSE globalFile
          /\ ret' = [ret EXCEPT ![s] = Completed(s, TRUE, ok)]
    /\ pc' = [pc EXCEPT ![s] = "idle"]
    /\ UNCHANGED <<resolverVars, reportVars, helperVars, tables, round, openaiVars,
                   userFile, profileFile, local, asks, cliVars>>

\* one call at a time: a session enters ask_chatbot only while no other
\* session is in it
ChatNext ==
    \E s \in Sessions :
        \/ (\A o \in Sessions : pc[o] = "idle") /\ ask_chatbot(s)
        \/ call_model(s)
        \/ save_user(s)
        \/ save_global(s)

SpecChat == ChatInit /\ [][ChatNext]_vars

\* the sessions are separate processes on the same files: their calls
\* interleave freely
RaceNext ==
    \E s \in Sessions : ask_chatbot(s) \/ call_model(s) \/ save_user(s) \/ save_global(s)

SpecChatRace == ChatInit /\ [][RaceNext]_vars

(***************************************************************************)
(* Claims about ask_chatbot                                                *)
(***************************************************************************)

\* the call that ends in this step appended its user message and then its
\* assistant message to the user's history and to the global history
AppendedBoth(s) ==
    LET r == ret'[s]
    IN  /\ r.kind = "answered"
        /\ Len(r.msgs) = 2
        /\ r.msgs[1].role = "user"
        /\ r.msgs[2].role = "assistant"
        /\ r.msgs[2].content = r.answer
        /\ userFile'[s] = r.user0 \o r.msgs
        /\ globalFile' = r.global0 \o r.msgs

\* the call that ends in this step answered with the fallback text of its
\* language if call_openai raised
FallbackGiven(s) ==
    LET r == ret'[s]
    IN  (r.kind = "answered" /\ r.failed) =>
            /\ r.answer = FallbackTexts[r.lang]
            /\ r.msgs[2].content = FallbackTexts[r.lang]

\* the call that ends in this step left both histories as they were
HistoriesUnchanged == userFile' = userFile /\ globalFile' = globalFile

C20_NoLostMessage ==
    \A s \in Sessions :
        (ret[s].kind = "answered" /\ ret[s].wrote[2]) =>
            \A i \in 1..2 : ret[s].msgs[i] \in Range(globalFile)

(***************************************************************************)
(* cli.py: the command loop of main(), with detect_command and             *)
(* save_feedback of commands_feedback.py and clear_user_memory of          *)
(* utils_io.py.  The Arabic words of the word lists are left out: no text  *)
(* of the model has Arabic letters.                                        *)
(***************************************************************************)

MaxTurns == 3

\* what the user may type at the prompt
CliInputs ==
    {"", "exit", "ja", "No", "/clear", "what is the history of rome", "/summary",
     "/stock", "/stock aapl", "aktier: AAPL,", "volatilitet?", "hej du",
     "vadå?", "  "}

\* n in t
Contains(t, n) == \E i \in 1..(Len(t) - Len(n) + 1) : SubSeq(t, i, i + Len(n) - 1) = n

\* detect_command(text): the name of the command, or None
detect_command(txt) ==
    LET t == Lower(StripText(txt))
        summary == {"sammanfatta", "summera", "kan du sammanfatta", "kan du summera",
                    "ge en sammanfattning",
                    "summary", "summarize", "give a summary", "show summary"}
        clear == {"rensa", "radera chatten", "ta bort chatten", "ta bort konversationen",
                  "nollställ",
                  "clear", "clear chat", "delete chat", "reset conversation", "remove conversation"}
        history == {"visa historiken", "hela historiken", "visa hela historiken",
                    "visa konversationen",
                    "history", "show history", "full history"}
        match_any(needles) == \E n \in needles : Contains(t, n)
    IN  IF t \in {"/summary", "/clear", "/history"} THEN Some(Tail(t))
        ELSE IF match_any(summary) THEN Some("summary")
        ELSE IF match_any(clear) THEN Some("clear")
        ELSE IF match_any(history) THEN Some("history")
        ELSE None

\* ext.try_handle(user_input, user_id, client): (handled, reply, lang, ask_feedback)
try_handle(user_input) == [handled |-> FALSE, reply |-> None, lang |-> None, ask_fb |-> FALSE]

\* the keyword test of the free-text stock branch: the Swedish and English
\* words are looked for in the lower-cased line, the others in the line as typed
HasStockKeyword(user_input) ==
    LET low == Lower(StripText(user_input))
        STOCK_KEYWORDS_SV ==
            {"pris", "kurs", "aktie", "idag", "igår", "överpris", "överprisad",
             "rsi", "trend", "52w", "52 veckor", "volatilitet", "jämför", "jämförelse"}
        STOCK_KEYWORDS_EN ==
            {"price", "stock", "today", "yesterday", "overpriced",
             "rsi", "trend", "52w", "volatility", "compare", "comparison"}
        STOCK_KEYWORDS_AR == {"rsi", "52"}
    IN  \/ \E k \in STOCK_KEYWORDS_SV : Contains(low, k)
        \/ \E k \in STOCK_KEYWORDS_EN : Contains(low, k)
        \/ \E k \in STOCK_KEYWORDS_AR : Contains(user_input, k)

\* a resolver that finds nothing in any line
ResolvesAny_Never(user_input) == FALSE

\* resolve_tickers_from_text(user_input) is a non-empty list.  Whether the
\* list is empty depends neither on the limit nor on the order in which the
\* set is iterated, so the insertion order stands for every order.
ResolvesAny(user_input) ==
    NormalizeAndCut(SetIterOrder(FoundInOrder(Some(user_input), 3), 0), 3) # <<>>

\* s.strip(",")
RECURSIVE StripCommas(_)
StripCommas(c) ==
    IF c = "" THEN ""
    ELSE IF Char(c, 1) = "," THEN StripCommas(Tail(c))
    ELSE IF Char(c, Len(c)) = "," THEN StripCommas(SubSeq(c, 1, Len(c) - 1))
    ELSE c

\* the branch of the loop body that handles a line, hasPending telling
\* whether last_answer_for_feedback holds an answer: the tests are made in
\* the order of the code and the first that holds takes the line
main_branch(user_input, hasPending) ==
    LET low == Lower(StripText(user_input))
        cmd == detect_command(user_input)
        \* the tickers of "/stock T1 T2 ..."
        parts == Split(user_input)
        slash_tickers == [i \in 1..(Len(parts) - 1) |-> Upper(StripText(parts[i + 1]))]
        \* the tickers of "aktier: T1, T2 ...": what follows the first colon
        colons == {i \in 1..Len(user_input) : Char(user_input, i) = ":"}
        first == CHOOSE i \in colons : \A j \in colons : i <= j
        tickers_part == IF colons = {} THEN "" ELSE SubSeq(user_input, first + 1, Len(user_input))
        words == Split(tickers_part)
        prefix_tickers == [i \in 1..Len(words) |-> StripCommas(Upper(StripText(words[i])))]
    IN  IF user_input = "" THEN "skip"
        ELSE IF low = "exit" THEN "exit"
        ELSE IF try_handle(user_input).handled THEN "ext"
        ELSE IF cmd # None THEN cmd[1]
        ELSE IF low \in {"/clear", "/history", "/summary"} THEN Tail(low)
        ELSE IF StartsWithAny(low, {"/stock"})
        THEN (IF slash_tickers = <<>> THEN "stock_usage" ELSE "stock_report")
        ELSE IF StartsWithAny(low, {"aktier:", "stocks:"})
        THEN (IF prefix_tickers = <<>> THEN "stock_usage" ELSE "stock_report")
        ELSE IF hasPending /\ low \in {"ja", "nej", "yes", "no", "y", "n"} THEN "feedback"
        ELSE IF HasStockKeyword(user_input) \/ ResolvesAny(user_input) THEN "freeform_report"
        ELSE "ask"

\* the branch of every line of the model, without and with an answer pending
Branches == [i \in CliInputs |-> [p \in BOOLEAN |-> main_branch(i, p)]]

\* the number of lines read so far by the sessions 1..k
RECURSIVE TurnsUpTo(_)
TurnsUpTo(k) == IF k = 0 THEN 0 ELSE cli[k].turn + TurnsUpTo(k - 1)

\* the record the loop has save_feedback append for the yes/no word low_ans
\* (ts is left out); of names the answer the record is about
FeedbackRecord(s, pending, low_ans) ==
    LET normalized == IF low_ans \in {"y", "yes"} THEN "ja"
                      ELSE IF low_ans \in {"n", "no"} THEN "nej"
                      ELSE low_ans
    IN  [user_id |-> s, question |-> pending.question[1], answer |-> pending.text[1],
         helpful |-> Lower(normalized), of |-> pending.of]

\* a loop that keeps the answer pending after its feedback is saved
FeedbackTaken_Kept(pending) == pending

\* last_answer_for_feedback after the feedback is saved
FeedbackTaken(pending) == NoPending

\* the loop reads a line and handles it (lines 115-223).  A line that is not
\* taken by an earlier branch enters ask_chatbot; a write that fails in
\* clear_user_memory or save_feedback raises out of main() and ends the
\* program.  save_feedback reads and rewrites the feedback file in one step.
main_input(s, inputs) ==
    LET c == cli[s]
        pending == c.last_answer_for_feedback
        hasPending == pending.text # None
    IN  /\ c.running /\ ~c.waiting
        /\ pc[s] = "idle"
        /\ TurnsUpTo(NumSessions) < MaxTurns
        /\ \E user_input \in inputs, ok \in BOOLEAN :
              LET b == branches[user_input][hasPending]
                  read == [c EXCEPT !.turn = @ + 1, !.input = user_input, !.branch = b,
                                    !.hadPending = hasPending]
                  crash == [read EXCEPT !.running = FALSE]
                  e == try_handle(user_input)
              IN  IF b = "ask"
                  THEN /\ ok
                       /\ ask_chatbot_call(s, user_input)
                       /\ cli' = [cli EXCEPT ![s] = [read EXCEPT !.waiting = TRUE]]
                       /\ UNCHANGED <<feedbackFile, branches>>
                  ELSE /\ userFile' = IF b = "clear" /\ ok
                                      THEN [userFile EXCEPT ![s] = <<>>]
                                      ELSE userFile
                       /\ feedbackFile' =
                             IF b = "feedback" /\ ok
                             THEN Append(feedbackFile,
                                         FeedbackRecord(s, pending, Lower(StripText(user_input))))
                             ELSE feedbackFile
                       /\ cli' = [cli EXCEPT ![s] =
                             IF b \in {"clear", "feedback"} /\ ~ok THEN crash
                             ELSE IF b = "clear" THEN [read EXCEPT !.cleared = userFile[s]]
                             ELSE IF b = "feedback"
                             THEN [read EXCEPT !.last_answer_for_feedback = FeedbackTaken(pending)]
                             ELSE IF b = "exit" THEN [read EXCEPT !.running = FALSE]
                             ELSE IF b = "ext"
                             THEN [read EXCEPT !.last_answer_for_feedback =
                                      IF e.ask_fb
                                      THEN [text |-> OrEmpty(e.reply), question |-> Some(user_input),
                                            lang |-> IF e.lang = None \/ e.lang = Some("") THEN "en" ELSE e.lang[1],
                                            of |-> <<"ext", s, c.turn + 1>>]
                                      ELSE NoPending]
                             ELSE read]
                       /\ UNCHANGED <<resolverVars, reportVars, helperVars, tables, round, openaiVars,
                                      globalFile, profileFile, pc, local, ret, asks, branches>>

\* ask_chatbot has returned (lines 224-237): an answer of 200 characters or
\* more becomes the answer pending for feedback, a shorter one leaves none
\* pending; when ask_chatbot raised, the exception ends the program
main_answer(s) ==
    LET c == cli[s]
        r == ret[s]
        question == c.input
    IN  /\ c.waiting
        /\ pc[s] = "idle"
        /\ IF r.kind = "raised"
           THEN cli' = [cli EXCEPT ![s] = [c EXCEPT !.waiting = FALSE, !.running = FALSE]]
           ELSE \E guess \in Guesses :
                   cli' = [cli EXCEPT ![s] =
                             [c EXCEPT !.waiting = FALSE,
                                       !.cleared = IF r.kind = "answered" THEN <<>> ELSE @,
                                       !.last_answer_for_feedback =
                                           IF Len(r.answer) >= FeedbackMinLen
                                           THEN [text |-> Some(r.answer), question |-> Some(question),
                                                 lang |-> detect_lang(question, guess),
                                                 of |-> <<"qa", r.n>>]
                                           ELSE NoPending]]
        /\ UNCHANGED <<resolverVars, reportVars, helperVars, tables, round, openaiVars,
                       userFile, globalFile, profileFile, pc, local, ret, asks, feedbackFile, branches>>

\* the command loops of the sessions, each a process of its own
CliNext ==
    \E s \in Sessions :
        \/ main_input(s, CliInputs)
        \/ main_answer(s)
        \/ call_model(s)
        \/ save_user(s)
        \/ save_global(s)

\* the programs have started: no history, no feedback, no answer pending
CliInit ==
    /\ seed = [s \in Sessions |-> 0]
    /\ text = None
    /\ limit = 3
    /\ NoCalls
    /\ request = "none"
    /\ tickers = <<>>
    /\ quoteFail = {}
    /\ insightFail = {}
    /\ NoReports
    /\ NoHelper
    /\ tables = StaticTables
    /\ round = 1
    /\ NoOpenAI
    /\ NoHistory
    /\ branches = Branches

SpecCli == CliInit /\ [][CliNext]_vars

(***************************************************************************)
(* clear_user_memory in the command loop, on histories that earlier runs   *)
(* of the program have left on disk                                        *)
(***************************************************************************)

MaxStored == 10

\* the two entries of the k-th earlier exchange of user u
StoredExchange(u, k) ==
    <<Message("user", "fråga " \o ToString(u) \o "." \o ToString(k), k - MaxStored - 1),
      Message("assistant", "svar " \o ToString(u) \o "." \o ToString(k), k - MaxStored - 1)>>

\* the history of user u after k exchanges
RECURSIVE Stored(_, _)
Stored(u, k) == IF k = 0 THEN <<>> ELSE Stored(u, k - 1) \o StoredExchange(u, k)

\* one exchange of each of the users 2..u
RECURSIVE StoredOthers(_)
StoredOthers(u) == IF u < 2 THEN <<>> ELSE StoredOthers(u - 1) \o Stored(u, 1)

ClearInputs == {"/clear", "vadå?", "ja"}

\* user 1 has had up to MaxStored exchanges with the model and every other
\* user one, before them; the global history holds them all
ClearInit ==
    /\ seed = [s \in Sessions |-> 0]
    /\ text = None
    /\ limit = 3
    /\ NoCalls
    /\ request = "none"
    /\ tickers = <<>>
    /\ quoteFail = {}
    /\ insightFail = {}
    /\ NoReports
    /\ NoHelper
    /\ tables = StaticTables
    /\ round = 1
    /\ NoOpenAI
    /\ \E k \in 0..MaxStored :
          /\ userFile = [s \in Sessions |-> IF s = 1 THEN Stored(1, k) ELSE Stored(s, 1)]
          /\ globalFile = StoredOthers(NumSessions) \o Stored(1, k)
          /\ profileFile = [s \in Sessions |->
                               IF s = 1 /\ k = 0 THEN NoProfile
                               ELSE [name |-> None, preferred_language |-> Some("sv")]]
    /\ pc = [s \in Sessions |-> "idle"]
    /\ local = [s \in Sessions |-> NoLocals]
    /\ ret = [s \in Sessions |-> NoReturn]
    /\ asks = 0
    /\ feedbackFile = <<>>
    /\ cli = [s \in Sessions |-> NoCli]
    /\ branches = Branches

\* one user at the prompt at a time
ClearNext ==
    \E s \in Sessions :
        \/ (\A o \in Sessions : pc[o] = "idle" /\ ~cli[o].waiting) /\ main_input(s, ClearInputs)
        \/ main_answer(s)
        \/ call_model(s)
        \/ save_user(s)
        \/ save_global(s)

SpecClear == ClearInit /\ [][ClearNext]_vars

(***************************************************************************)
(* Claims about the command loop                                           *)
(***************************************************************************)

\* the pending answer p of session s was put up for feedback as the loop
\* does it: it is the answer of the session's last ask_chatbot call and has
\* 200 characters or more, or it is an extension's reply
AskedForFeedback(s, p) ==
    \/ /\ p.of[1] = "qa"
       /\ ret[s].kind \in {"answered", "empty"}
       /\ ret[s].n = p.of[2]
       /\ ret[s].answer = p.text[1]
       /\ Len(p.text[1]) >= 200
    \/ p.of[1] = "ext"

\* C21: a feedback record is saved only when an answer is pending for
\* feedback (the last Q&A answer, of at least 200 characters, or an
\* extension reply that asked for feedback) and the line is one of the
\* yes/no words; the record carries the question and the text of the pending
\* answer, saving clears the pending answer, and no answer gets a second
\* record.
C21_FeedbackOncePerAnswer ==
    [][feedbackFile' # feedbackFile =>
          \E s \in Sessions :
              LET p == cli[s].last_answer_for_feedback
                  r == feedbackFile'[Len(feedbackFile')]
              IN  /\ cli'[s].turn = cli[s].turn + 1
                  /\ p.text # None
                  /\ AskedForFeedback(s, p)
                  /\ Lower(StripText(cli'[s].input)) \in {"ja", "nej", "yes", "no", "y", "n"}
                  /\ feedbackFile' = Append(feedbackFile, r)
                  /\ r.user_id = s
                  /\ r.question = p.question[1]
                  /\ r.answer = p.text[1]
                  /\ r.helpful \in {"ja", "nej"}
                  /\ cli'[s].last_answer_for_feedback.text = None
                  /\ \A i \in 1..Len(feedbackFile) : feedbackFile[i].of # p.of]_vars

\* a user got a long answer, typed "No", which was saved as "nej", and then
\* typed "ja": the second word found no answer pending and added no record
C21_Witness ==
    \E s \in Sessions :
        /\ Len(feedbackFile) = 1
        /\ feedbackFile[1].user_id = s
        /\ feedbackFile[1].answer = LongAnswer
        /\ feedbackFile[1].question = "vadå?"
        /\ feedbackFile[1].helpful = "nej"
        /\ cli[s].turn = 3
        /\ cli[s].input = "ja"
        /\ cli[s].branch = "freeform_report"
        /\ cli[s].last_answer_for_feedback = NoPending

\* the line is one of the commands that come before the stock and feedback
\* branches
IsCommand(i) == detect_command(i) # None

IsStockCommand(i) == StartsWithAny(Lower(StripText(i)), {"/stock", "aktier:", "stocks:"})

\* the line is a yes/no word typed while an answer is pending
IsFeedbackAnswer(i, hadPending) ==
    hadPending /\ Lower(StripText(i)) \in {"ja", "nej", "yes", "no", "y", "n"}

\* a line that is neither empty, nor "exit", nor taken by the extension, a
\* command or the feedback prompt
OrdinaryQuestion(i, hadPending) ==
    /\ i # ""
    /\ Lower(StripText(i)) # "exit"
    /\ ~try_handle(i).handled
    /\ ~IsCommand(i)
    /\ ~IsStockCommand(i)
    /\ ~IsFeedbackAnswer(i, hadPending)

\* C22: a line is forwarded to the model through ask_chatbot only if no
\* earlier branch handled it: it is no clear/history/summary command, no
\* /stock or prefix stock command, no yes/no answer to a pending feedback
\* prompt, has no stock keyword, and resolve_tickers_from_text returns an
\* empty list for it; so every ordinary question with a word of 1 to 5 ASCII
\* letters is answered with a stock report and never reaches the model.
C22_ForwardedOnlyUnhandled ==
    [][\A s \in Sessions :
          cli'[s].turn # cli[s].turn =>
              LET c == cli'[s]
                  i == c.input
                  forwarded == c.waiting /\ asks' = asks + 1
              IN  /\ forwarded <=> c.branch = "ask"
                  /\ ~forwarded => (asks' = asks /\ pc' = pc /\ ret' = ret)
                  /\ forwarded =>
                        /\ ~IsCommand(i)
                        /\ ~IsStockCommand(i)
                        /\ ~IsFeedbackAnswer(i, c.hadPending)
                        /\ ~HasStockKeyword(i)
                        /\ ~ResolvesAny(i)
                  /\ (OrdinaryQuestion(i, c.hadPending) /\ \E w \in Range(Split(i)) : ShortAsciiWord(w))
                        => (c.branch = "freeform_report" /\ ~forwarded)]_vars

\* one user typed "hej du" while an answer was pending and got a stock
\* report; another typed "vadå?", which the model answered
C22_Witness ==
    \E s, o \in Sessions :
        /\ cli[s].input = "hej du"
        /\ cli[s].branch = "freeform_report"
        /\ cli[s].hadPending
        /\ cli[o].input = "vadå?"
        /\ cli[o].branch = "ask"
        /\ ret[o].kind = "answered"

\* the entries the user cleared that the global history holds at places
\* among its last n
ClearedInLast(s, n) ==
    {globalFile[i] : i \in {j \in 1..Len(globalFile) :
                               /\ j > Len(globalFile) - n
                               /\ globalFile[j] \in Range(cli[s].cleared)}}

\* the call that starts in this step sends the entry m as context
SentAsContext(s, m) ==
    /\ pc[s] = "idle" /\ pc'[s] = "calling"
    /\ [role |-> m.role, content |-> m.content] \in Range(local'[s].api_context)

\* the step is a clear_user_memory(s) that returned: the user's history is
\* the empty list and nothing else on disk has changed
ClearsOnlyTheUser(s) ==
    (cli'[s].turn # cli[s].turn /\ cli'[s].branch = "clear" /\ cli'[s].running) =>
        /\ userFile'[s] = <<>>
        /\ \A o \in Sessions \ {s} : userFile'[o] = userFile[o]
        /\ globalFile' = globalFile
        /\ profileFile' = profileFile
        /\ feedbackFile' = feedbackFile

\* C23 as stated: clear_user_memory(user_id) sets that user's history to the
\* empty list and leaves the global history, the profile, the feedback
\* records and every other user's history unchanged; the entries the user
\* cleared remain in the global history and are sent as context by the
\* user's next ask_chatbot call that reaches the model.
C23_ClearedStillSent ==
    [][\A s \in Sessions :
          /\ ClearsOnlyTheUser(s)
          /\ (pc[s] = "idle" /\ pc'[s] = "calling") =>
                \A m \in ClearedInLast(s, Len(globalFile)) : SentAsContext(s, m)]_vars

\* C23 amended: the same, but of the cleared entries the next call sends
\* those among the last GLOBAL_MEMORY_LIMIT - 1 entries of the global
\* history: the context holds its last GLOBAL_MEMORY_LIMIT entries, the new
\* user message being one.
C23_ClearedSentWithinLimit ==
    [][\A s \in Sessions :
          /\ ClearsOnlyTheUser(s)
          /\ (pc[s] = "idle" /\ pc'[s] = "calling") =>
                \A m \in ClearedInLast(s, GLOBAL_MEMORY_LIMIT - 1) : SentAsContext(s, m)]_vars

\* user 1 cleared a history of two exchanges and asked again: the user's
\* file holds nothing, the global history still holds the four entries and
\* the call under way sends them, with the new question, as context
C23_Witness ==
    /\ pc[1] = "calling"
    /\ Len(cli[1].cleared) = 4
    /\ userFile[1] = <<>>
    /\ \A m \in Range(cli[1].cleared) :
          /\ m \in Range(globalFile)
          /\ [role |-> m.role, content |-> m.content] \in Range(local[1].api_context)
    /\ Len(local[1].user_history) = 1
    /\ Len(local[1].api_context) = Len(globalFile) + 2

====
